---- MODULE Spec2Model ----
(***************************************************************************)
(* Two-pass assembler of the educational virtual machine (variant 23),     *)
(* src/assembler.py: class Assembler.                                      *)
(*                                                                         *)
(* Representation.  A Python str is a sequence of one-character strings.   *)
(* A source text is held as the list of its lines, i.e. as the value of    *)
(* source.split('\n') (a text with n-1 newlines is exactly a list of n     *)
(* newline-free lines, so the list is never empty).  A dict is a function  *)
(* whose DOMAIN is its key set; `'k' in d` is "k" \in DOMAIN d and         *)
(* `del d['k']` restricts the domain.  A raised exception is a record      *)
(* carried in `result`.                                                    *)
(***************************************************************************)
EXTENDS Integers, Sequences, FiniteSets, TLC

VARIABLES
    program,          \* self.program: list of instruction dicts
    labels,           \* self.labels: dict label name -> address
    current_address,  \* self.current_address
    lines,            \* assemble: local `lines`
    line_num,         \* assemble: loop variable of pass 1 (0 before the first line)
    pc,               \* "idle": no call in progress; "assemble": inside assemble
    result,           \* outcome of the last assemble call
    binary,           \* outcome of the last to_binary call
    enc_cmd,          \* argument of the last direct encode_instruction call
    calls             \* number of assemble calls begun on this instance

vars == <<program, labels, current_address, lines, line_num, pc, result, binary, enc_cmd,
          calls>>

\* ------------------------------------------------------------------ str
Range(s) == {s[i] : i \in 1..Len(s)}

\* Characters str.strip() and str.split() treat as whitespace (a line holds no "\n").
Whitespace == {" ", "\t", "\r"}

UpperCase == <<"A","B","C","D","E","F","G","H","I","J","K","L","M",
               "N","O","P","Q","R","S","T","U","V","W","X","Y","Z">>
LowerCase == <<"a","b","c","d","e","f","g","h","i","j","k","l","m",
               "n","o","p","q","r","s","t","u","v","w","x","y","z">>

\* str.lower() on one character
LowerChar(c) ==
    IF \E i \in 1..Len(UpperCase) : UpperCase[i] = c
    THEN LowerCase[CHOOSE i \in 1..Len(UpperCase) : UpperCase[i] = c]
    ELSE c

\* str.lower()
lower(s) == [i \in 1..Len(s) |-> LowerChar(s[i])]

RECURSIVE lstrip(_)
lstrip(s) ==
    IF s # <<>> /\ Head(s) \in Whitespace THEN lstrip(Tail(s)) ELSE s

RECURSIVE rstrip(_)
rstrip(s) ==
    IF s # <<>> /\ s[Len(s)] \in Whitespace THEN rstrip(SubSeq(s, 1, Len(s) - 1)) ELSE s

\* str.strip()
strip(s) == rstrip(lstrip(s))

\* s.split(sep)[0]: the text before the first occurrence of sep (all of s without one)
RECURSIVE split_first(_, _)
split_first(s, sep) ==
    IF s = <<>> \/ Head(s) = sep THEN <<>>
    ELSE <<Head(s)>> \o split_first(Tail(s), sep)

\* The first whitespace-free run of a string that starts with a non-whitespace character
RECURSIVE first_word(_)
first_word(s) ==
    IF s = <<>> \/ Head(s) \in Whitespace THEN <<>>
    ELSE <<Head(s)>> \o first_word(Tail(s))

\* str.split(): the list of maximal whitespace-free runs
RECURSIVE split(_)
split(s) ==
    LET t == lstrip(s)
        w == first_word(t)
    IN IF t = <<>> THEN <<>>
       ELSE <<w>> \o split(SubSeq(t, Len(w) + 1, Len(t)))

startswith(s, p) == Len(s) >= Len(p) /\ SubSeq(s, 1, Len(p)) = p

endswith(s, p) == Len(s) >= Len(p) /\ SubSeq(s, Len(s) - Len(p) + 1, Len(s)) = p

\* ------------------------------------------------------------------ int()
Digits == <<"0","1","2","3","4","5","6","7","8","9","a","b","c","d","e","f">>

\* The characters that are digits of the base
IsDigit(c, base) == \E i \in 1..base : Digits[i] = LowerChar(c)

DigitVal(c) == (CHOOSE i \in 1..16 : Digits[i] = LowerChar(c)) - 1

RECURSIVE digits_value(_, _, _)
digits_value(s, base, acc) ==
    IF s = <<>> THEN acc
    ELSE digits_value(Tail(s), base, acc * base + DigitVal(Head(s)))

\* The literal prefix int(s, base) accepts in front of the digits (none in base 10)
BasePrefix(base) ==
    CASE base = 16 -> <<"0", "x">>
      [] base = 2  -> <<"0", "b">>
      [] base = 8  -> <<"0", "o">>
      [] OTHER     -> <<>>

\* Python's int(s, base) on a string of letters and digits (no sign, no underscore):
\* an optional base prefix, then one or more digits of the base; anything else is
\* a ValueError.
py_int(s, base) ==
    LET p    == BasePrefix(base)
        body == IF p # <<>> /\ startswith(lower(s), p)
                THEN SubSeq(s, Len(p) + 1, Len(s)) ELSE s
    IN IF body # <<>> /\ \A i \in 1..Len(body) : IsDigit(body[i], base)
       THEN [ok |-> TRUE, val |-> digits_value(body, base, 0)]
       ELSE [ok |-> FALSE, val |-> 0]

\* Assembler.parse_number
parse_number(s0) ==
    LET s == lower(strip(s0))
    IN IF startswith(s, <<"0", "x">>) THEN py_int(SubSeq(s, 3, Len(s)), 16)
       ELSE IF startswith(s, <<"0", "b">>) THEN py_int(SubSeq(s, 3, Len(s)), 2)
       ELSE IF startswith(s, <<"0", "o">>) THEN py_int(SubSeq(s, 3, Len(s)), 8)
       ELSE py_int(s, 10)

\* ------------------------------------------------------------------ opcodes
\* class Opcode
STORE == 1
LOAD == 23
CONST == 42
BITREV == 60

\* Largest CONST immediate (0xFFFF) and largest LOAD address (0xFFFFFF)
CONST_MAX == 65535
LOAD_MAX == 16777215

\* Assembler.MNEMONICS
MNEMONICS ==
    (<<"s","t","o","r","e">> :> STORE) @@
    (<<"l","o","a","d">> :> LOAD) @@
    (<<"c","o","n","s","t">> :> CONST) @@
    (<<"b","i","t","r","e","v">> :> BITREV)

\* ------------------------------------------------------------------ dict
EmptyDict == [k \in {} |-> 0]

\* d[k] = v
dict_set(d, k, v) == [x \in DOMAIN d \cup {k} |-> IF x = k THEN v ELSE d[x]]

\* del d[k]
dict_del(d, k) == [x \in DOMAIN d \ {k} |-> d[x]]

\* d.get(k, default)
dict_get(d, k, default) == IF k \in DOMAIN d THEN d[k] ELSE default

\* ------------------------------------------------------------------ parse_line
\* The try body of parse_line for the one argument of CONST / LOAD: parse_number
\* and then the range check.  Both raise ValueError inside the try block.
try_operand(arg, max) ==
    LET n == parse_number(arg)
    IN IF ~n.ok THEN [raised |-> TRUE, val |-> 0]
       ELSE IF ~(0 <= n.val /\ n.val <= max) THEN [raised |-> TRUE, val |-> 0]
       ELSE [raised |-> FALSE, val |-> n.val]

\* try: cmd[key] = number in range / except ValueError: cmd['label'] = args[0]
with_operand(cmd, key, arg, max) ==
    LET t == try_operand(arg, max)
    IN IF t.raised THEN dict_set(cmd, "label", arg) ELSE dict_set(cmd, key, t.val)

pl_none(labs, addr) ==
    [kind |-> "None", labels |-> labs, current_address |-> addr]

pl_raise(e, labs, addr) ==
    [kind |-> "raise", err |-> e, labels |-> labs, current_address |-> addr]

pl_cmd(cmd, labs, addr) ==
    [kind |-> "cmd", cmd |-> cmd, labels |-> labs, current_address |-> addr]

\* Variant: a second declaration silently rebinds the label
define_label_rebind(label, labs, addr) ==
    pl_none(dict_set(labs, label, addr), addr)

\* Variant: a label definition takes up an address
define_label_counts(label, labs, addr) ==
    IF label \in DOMAIN labs
    THEN pl_raise([type |-> "DuplicateLabel", name |-> label], labs, addr)
    ELSE pl_none(dict_set(labs, label, addr), addr + 1)

\* parse_line, label branch: a declared name raises, a new one is bound to the
\* current address; no command either way
define_label(label, labs, addr) ==
    IF label \in DOMAIN labs
    THEN pl_raise([type |-> "DuplicateLabel", name |-> label], labs, addr)
    ELSE pl_none(dict_set(labs, label, addr), addr)

\* Assembler.parse_line on self.labels = labs, self.current_address = addr: what it
\* returns or raises, and the two fields as it leaves them.
parse_line(line0, labs, addr) ==
    LET line1 == IF ";" \in Range(line0) THEN split_first(line0, ";") ELSE line0
        line  == strip(line1)
    IN
    IF line = <<>> THEN pl_none(labs, addr)
    ELSE IF endswith(line, <<":">>) THEN
        define_label(strip(SubSeq(line, 1, Len(line) - 1)), labs, addr)
    ELSE
        LET parts == split(line)
        IN
        IF parts = <<>> THEN pl_none(labs, addr)
        ELSE
        LET mnemonic == lower(parts[1])
        IN
        IF mnemonic \notin DOMAIN MNEMONICS
        THEN pl_raise([type |-> "UnknownMnemonic", name |-> mnemonic], labs, addr)
        ELSE
        LET opcode == MNEMONICS[mnemonic]
            args   == IF Len(parts) > 1 THEN Tail(parts) ELSE <<>>
            cmd    == [address |-> addr, opcode |-> opcode, mnemonic |-> mnemonic,
                       args |-> args, raw_line |-> line]
            arity  == pl_raise([type |-> "Arity", name |-> mnemonic], labs, addr)
        IN
        IF opcode = CONST THEN
            IF Len(args) # 1 THEN arity
            ELSE pl_cmd(with_operand(cmd, "value", args[1], CONST_MAX), labs, addr + 1)
        ELSE IF opcode = LOAD THEN
            IF Len(args) # 1 THEN arity
            ELSE pl_cmd(with_operand(cmd, "address_arg", args[1], LOAD_MAX), labs, addr + 1)
        ELSE IF opcode = STORE THEN
            IF Len(args) # 0 THEN arity ELSE pl_cmd(cmd, labs, addr + 1)
        ELSE IF opcode = BITREV THEN
            IF Len(args) # 0 THEN arity ELSE pl_cmd(cmd, labs, addr + 1)
        ELSE pl_cmd(cmd, labs, addr + 1)

\* ------------------------------------------------------------------ encoding
RECURSIVE bit_or(_, _)
bit_or(a, b) ==
    IF a = 0 THEN b
    ELSE IF b = 0 THEN a
    ELSE (IF a % 2 = 1 \/ b % 2 = 1 THEN 1 ELSE 0) + 2 * bit_or(a \div 2, b \div 2)

\* The encoded word can exceed 31 bits, so it is held exactly as two limbs:
\* [hi, lo] is hi * 2^16 + lo with 0 <= lo < 2^16.
wide(x) == [hi |-> x \div 2^16, lo |-> x % 2^16]

\* value << n, for 0 <= n <= 15
shl(value, n) ==
    [hi |-> (value \div 2^16) * 2^n + ((value % 2^16) * 2^n) \div 2^16,
     lo |-> ((value % 2^16) * 2^n) % 2^16]

\* x | small, for 0 <= small < 2^16
or_low(x, small) == [hi |-> x.hi, lo |-> bit_or(x.lo, small)]

\* Variant: the word packed most significant byte first ('>I')
pack_I_be(x) ==
    IF 0 <= x.hi /\ x.hi < 2^16
    THEN [kind |-> "return",
          bytes |-> <<x.hi \div 2^8, x.hi % 2^8, x.lo \div 2^8, x.lo % 2^8>>]
    ELSE [kind |-> "raise", bytes |-> <<>>]

\* struct.pack('<I', x): four bytes, least significant first; struct.error when x
\* does not fit an unsigned 32-bit integer
pack_I(x) ==
    IF 0 <= x.hi /\ x.hi < 2^16
    THEN [kind |-> "return",
          bytes |-> <<x.lo % 2^8, x.lo \div 2^8, x.hi % 2^8, x.hi \div 2^8>>]
    ELSE [kind |-> "raise", bytes |-> <<>>]

\* Assembler.encode_instruction
encode_instruction(cmd) ==
    LET opcode == cmd.opcode
    IN IF opcode = CONST THEN pack_I(or_low(shl(dict_get(cmd, "value", 0), 6), opcode))
       ELSE IF opcode = LOAD THEN pack_I(or_low(shl(dict_get(cmd, "address_arg", 0), 6), opcode))
       ELSE IF opcode = STORE THEN pack_I(wide(opcode))
       ELSE IF opcode = BITREV THEN pack_I(wide(opcode))
       ELSE [kind |-> "raise", bytes |-> <<>>]

\* Assembler.to_binary: the loop over program[i..], binary being the bytes so far
RECURSIVE to_binary_from(_, _, _)
to_binary_from(prog, i, bin) ==
    IF i > Len(prog) THEN [kind |-> "return", bytes |-> bin]
    ELSE LET w == encode_instruction(prog[i])
         IN IF w.kind = "raise" THEN w
            ELSE to_binary_from(prog, i + 1, bin \o w.bytes)

to_binary(prog) == to_binary_from(prog, 1, <<>>)

\* ------------------------------------------------------------------ inputs
\* Longest source text, in lines
MaxLines == 3

RECURSIVE SeqsUpTo(_, _)
SeqsUpTo(S, n) ==
    IF n = 0 THEN {<<>>}
    ELSE LET shorter == SeqsUpTo(S, n - 1)
         IN shorter \cup {Append(q, x) : q \in {r \in shorter : Len(r) = n - 1}, x \in S}

\* The source texts over a set of lines: one to MaxLines lines
TextsOver(S) == SeqsUpTo(S, MaxLines) \ {<<>>}

\* Lines of the label and error scenarios: '', ' ;c', 'a:', 'A :', 'const a', 'load a', 'LOAD A ;r', 'store', 'const 5', 'const 70000', 'foo', 'store 1'
Lines ==
    { <<>>,
      <<" ",";","c">>,
      <<"a",":">>,
      <<"A"," ",":">>,
      <<"c","o","n","s","t"," ","a">>,
      <<"l","o","a","d"," ","a">>,
      <<"L","O","A","D"," ","A"," ",";","r">>,
      <<"s","t","o","r","e">>,
      <<"c","o","n","s","t"," ","5">>,
      <<"c","o","n","s","t"," ","7","0","0","0","0">>,
      <<"f","o","o">>,
      <<"s","t","o","r","e"," ","1">> }

\* Lines of the numeric-literal scenarios: 'const 100', 'const 0x64', 'const 0b1100100', 'const 0144', 'const 0o144', 'load 0X10', 'load 16777215', 'load 16777216', 'const 65535', 'const 65536', 'const 0x', 'bitrev'
LitLines ==
    { <<"c","o","n","s","t"," ","1","0","0">>,
      <<"c","o","n","s","t"," ","0","x","6","4">>,
      <<"c","o","n","s","t"," ","0","b","1","1","0","0","1","0","0">>,
      <<"c","o","n","s","t"," ","0","1","4","4">>,
      <<"c","o","n","s","t"," ","0","o","1","4","4">>,
      <<"l","o","a","d"," ","0","X","1","0">>,
      <<"l","o","a","d"," ","1","6","7","7","7","2","1","5">>,
      <<"l","o","a","d"," ","1","6","7","7","7","2","1","6">>,
      <<"c","o","n","s","t"," ","6","5","5","3","5">>,
      <<"c","o","n","s","t"," ","6","5","5","3","6">>,
      <<"c","o","n","s","t"," ","0","x">>,
      <<"b","i","t","r","e","v">> }

Sources == TextsOver(Lines)

LitSources == TextsOver(LitLines)

\* ------------------------------------------------------------------ state machine
NoResult == [kind |-> "none"]

\* Assembler.__init__; no call made yet
Init ==
    /\ program = <<>>
    /\ labels = EmptyDict
    /\ current_address = 0
    /\ lines = <<>>
    /\ line_num = 0
    /\ pc = "idle"
    /\ result = NoResult
    /\ binary = NoResult
    /\ enc_cmd = <<>>
    /\ calls = 0

\* Most assemble calls made on one instance
MaxCalls == 2

\* What the head of assemble assigns to self.program, self.labels,
\* self.current_address
reset_program == <<>>

\* Variant: the label table is not cleared
keep_labels == labels

reset_labels == EmptyDict

reset_address == 0

\* assemble(source), up to the first pass: reset the instance state, split the text
Call(texts) ==
    /\ pc = "idle"
    /\ calls < MaxCalls
    /\ calls' = calls + 1
    /\ \E source \in texts : lines' = source
    /\ program' = reset_program
    /\ labels' = reset_labels
    /\ current_address' = reset_address
    /\ line_num' = 0
    /\ pc' = "assemble"
    /\ result' = [kind |-> "running"]
    /\ binary' = NoResult
    /\ UNCHANGED enc_cmd

\* The first pass's handling of what parse_line gave (r) for line n: append the
\* command, if any, or re-raise the ValueError prefixed with the line number
pass1_after(r, n, prog) ==
    [program         |-> IF r.kind = "cmd" THEN Append(prog, r.cmd) ELSE prog,
     labels          |-> r.labels,
     current_address |-> r.current_address,
     raised          |-> r.kind = "raise",
     result          |-> IF r.kind = "raise"
                         THEN [kind |-> "raise", error |-> [line |-> n, e |-> r.err]]
                         ELSE [kind |-> "running"]]

\* One iteration of the first pass, on line n of ls
pass1_line(ls, n, prog, labs, addr) == pass1_after(parse_line(ls[n], labs, addr), n, prog)

Pass1Step ==
    /\ pc = "assemble"
    /\ line_num < Len(lines)
    /\ \E it \in {pass1_line(lines, line_num + 1, program, labels, current_address)} :
          /\ line_num' = line_num + 1
          /\ program' = it.program
          /\ labels' = it.labels
          /\ current_address' = it.current_address
          /\ result' = it.result
          /\ pc' = IF it.raised THEN "idle" ELSE "assemble"
    /\ UNCHANGED <<lines, binary, enc_cmd, calls>>

\* Variant: only CONST commands are resolved
resolve_const_only(cmd, labs) ==
    IF "label" \in DOMAIN cmd /\ cmd.opcode = CONST
    THEN dict_del(dict_set(cmd, "value", labs[cmd.label]), "label")
    ELSE cmd

\* The body of the second pass for one command whose label is declared
resolve(cmd, labs) ==
    IF "label" \in DOMAIN cmd
    THEN IF cmd.opcode = CONST
         THEN dict_del(dict_set(cmd, "value", labs[cmd.label]), "label")
         ELSE IF cmd.opcode = LOAD
         THEN dict_del(dict_set(cmd, "address_arg", labs[cmd.label]), "label")
         ELSE cmd
    ELSE cmd

\* The commands at which the second pass raises
unknown_at(prog, labs) ==
    {i \in 1..Len(prog) : "label" \in DOMAIN prog[i] /\ prog[i].label \notin DOMAIN labs}

\* Variant: a command with an unknown label is left as it is
pass2_lenient(prog, labs) ==
    LET done == [i \in 1..Len(prog) |->
                    IF i \in unknown_at(prog, labs) THEN prog[i] ELSE resolve(prog[i], labs)]
    IN [program |-> done, result |-> [kind |-> "return", program |-> done]]

\* The second pass on self.program = prog, self.labels = labs: the loop resolves the
\* commands in order, in place, and stops at the first unknown label.  Gives the
\* list as the loop leaves it and what assemble returns or raises.
pass2(prog, labs) ==
    LET bad == unknown_at(prog, labs)
    IN IF bad = {}
       THEN LET done == [i \in 1..Len(prog) |-> resolve(prog[i], labs)]
            IN [program |-> done, result |-> [kind |-> "return", program |-> done]]
       ELSE LET f == CHOOSE i \in bad : \A j \in bad : i <= j
            IN [program |-> [i \in 1..Len(prog) |->
                                IF i < f THEN resolve(prog[i], labs) ELSE prog[i]],
                result  |-> [kind |-> "raise",
                             error |-> [e |-> [type |-> "UnknownLabel",
                                               name |-> prog[f].label]]]]

\* assemble, after the first pass has consumed every line: the second pass and the
\* return
Pass2 ==
    /\ pc = "assemble"
    /\ line_num = Len(lines)
    /\ LET r == pass2(program, labels)
       IN /\ program' = r.program
          /\ result' = r.result
    /\ pc' = "idle"
    /\ UNCHANGED <<labels, current_address, lines, line_num, binary, enc_cmd, calls>>

\* binary = assembler.to_binary(program) on the program assemble returned
ToBinary ==
    /\ pc = "idle"
    /\ result.kind = "return"
    /\ binary' = to_binary(result.program)
    /\ UNCHANGED <<program, labels, current_address, lines, line_num, pc, result, enc_cmd,
                    calls>>

\* The first assemble call on a newly constructed Assembler
FirstCall(texts) == calls = 0 /\ Call(texts)

\* One assemble call on a new instance, then to_binary (run_tests.py, stage2_tests.py)
Next == FirstCall(Sources) \/ Pass1Step \/ Pass2 \/ ToBinary

Spec == Init /\ [][Next]_vars

\* The same over the numeric-literal lines
NextLit == FirstCall(LitSources) \/ Pass1Step \/ Pass2 \/ ToBinary

SpecLit == Init /\ [][NextLit]_vars

\* ------------------------------------------------------------------ reuse
\* Lines of the repeated-call scenarios: 'a:', 'const a', 'store', 'foo'
ReuseLines ==
    { <<"a",":">>,
      <<"c","o","n","s","t"," ","a">>,
      <<"s","t","o","r","e">>,
      <<"f","o","o">> }

ReuseSources == TextsOver(ReuseLines)

\* Any number of assemble calls on one instance, each begun when the one before has
\* returned or raised (test_specification_examples)
NextReuse == Call(ReuseSources) \/ Pass1Step \/ Pass2 \/ ToBinary

SpecReuse == Init /\ [][NextReuse]_vars

\* ------------------------------------------------------------------ encoder alone
\* Operands 0..EncDense and max-EncDense..max are all tried, with the powers of two
EncDense == 40

Operands(max) ==
    {v \in 0..EncDense : v <= max} \cup {max - d : d \in 0..EncDense}
    \cup {2^k : k \in {j \in 0..23 : 2^j <= max}}

EncCmds ==
    {[opcode |-> CONST, value |-> v] : v \in Operands(CONST_MAX)}
    \cup {[opcode |-> LOAD, address_arg |-> a] : a \in Operands(LOAD_MAX)}
    \cup {[opcode |-> STORE], [opcode |-> BITREV]}

\* encode_instruction(cmd) called on a resolved command
EncodeInstruction ==
    /\ pc = "idle"
    /\ \E cmd \in EncCmds :
          /\ enc_cmd' = <<cmd>>
          /\ binary' = encode_instruction(cmd)
    /\ UNCHANGED <<program, labels, current_address, lines, line_num, pc, result, calls>>

NextEnc == EncodeInstruction

SpecEnc == Init /\ [][NextEnc]_vars

\* ------------------------------------------------------------------ long programs
\* Texts too long to hold line by line.  Here a list is held as its runs: the text
\* as runs [line, times] of `times` consecutive equal lines, the program as runs
\* [cmd, times] of `times` consecutive commands that equal cmd but for their
\* addresses, which count up from cmd.address.
Run(x, n) == [item |-> x, times |-> n]

Singles(xs) == [i \in 1..Len(xs) |-> Run(xs[i], 1)]

RECURSIVE TotalTimes(_, _)
TotalTimes(runs, b) == IF b = 0 THEN 0 ELSE TotalTimes(runs, b - 1) + runs[b].times

StoreLine == <<"s","t","o","r","e">>

\* The shortest run of instructions after which an address no longer fits CONST
BigRun == CONST_MAX + 1

\* The shortest run of instructions after which an address shifted left by 6 no
\* longer fits 32 bits
HugeRun == 2^26

\* Lines around the run: 'z:', 'const z', 'load z', 'store'
LongLines ==
    { <<"z",":">>,
      <<"c","o","n","s","t"," ","z">>,
      <<"l","o","a","d"," ","z">>,
      <<"s","t","o","r","e">> }

\* Up to one line, BigRun or HugeRun times 'store', up to two lines
LongSources ==
    UNION {{Singles(pre) \o <<Run(StoreLine, n)>> \o Singles(post) :
               pre \in SeqsUpTo(LongLines, 1), post \in SeqsUpTo(LongLines, 2)} :
           n \in {BigRun, HugeRun}}

\* assemble(source) on a long text
CallLong ==
    /\ pc = "idle"
    /\ calls = 0
    /\ calls' = calls + 1
    /\ \E source \in LongSources : lines' = source
    /\ program' = reset_program
    /\ labels' = reset_labels
    /\ current_address' = reset_address
    /\ line_num' = 0
    /\ pc' = "assemble"
    /\ result' = [kind |-> "running"]
    /\ binary' = NoResult
    /\ UNCHANGED enc_cmd

\* The iterations of the first pass over the next run of lines.  A run of one line
\* is one iteration.  In a longer run of a line that yields a command, iteration t
\* (from 0) calls parse_line on the same line with the same labels at address
\* current_address + t: it appends the same command but for the address and binds
\* no label, so the run of lines appends one run of commands.
Pass1Long ==
    /\ pc = "assemble"
    /\ line_num < TotalTimes(lines, Len(lines))
    /\ \E b \in {k \in 1..Len(lines) : TotalTimes(lines, k - 1) = line_num} :
       \E it \in {pass1_line([k \in {line_num + 1} |-> lines[b].item], line_num + 1,
                             <<>>, labels, current_address)} :
          /\ IF lines[b].times = 1 THEN TRUE
             ELSE ~it.raised /\ it.program # <<>> /\ it.labels = labels
          /\ line_num' = line_num + lines[b].times
          /\ program' = IF it.program # <<>>
                        THEN Append(program, Run(it.program[1], lines[b].times))
                        ELSE program
          /\ labels' = it.labels
          /\ current_address' =
                current_address + lines[b].times * (it.current_address - current_address)
          /\ result' = it.result
          /\ pc' = IF it.raised THEN "idle" ELSE "assemble"
    /\ UNCHANGED <<lines, binary, enc_cmd, calls>>

\* The second pass over the runs of commands: the commands of a run carry the same
\* label or none, so the loop resolves a run as it resolves its first command, and
\* raises at the first command of the first run with an unknown label
Pass2Long ==
    /\ pc = "assemble"
    /\ line_num = TotalTimes(lines, Len(lines))
    /\ LET r == pass2([b \in 1..Len(program) |-> program[b].item], labels)
       IN /\ program' = [b \in 1..Len(program) |-> Run(r.program[b], program[b].times)]
          /\ result' = IF r.result.kind = "return"
                       THEN [kind |-> "return", program |-> program']
                       ELSE r.result
    /\ pc' = "idle"
    /\ UNCHANGED <<labels, current_address, lines, line_num, binary, enc_cmd, calls>>

\* binary = assembler.to_binary(program) on a returned long program: the commands
\* of a run differ in their addresses only, which encode_instruction does not read,
\* so a run of commands gives a run of equal words, and the loop raises at the first
\* command of the first run whose command does not pack
ToBinaryLong ==
    /\ pc = "idle"
    /\ result.kind = "return"
    /\ \E w \in {to_binary([b \in 1..Len(result.program) |-> result.program[b].item])} :
          binary' = IF w.kind = "raise" THEN w
                    ELSE [kind  |-> "return",
                          bytes |-> [b \in 1..Len(result.program) |->
                                        Run(SubSeq(w.bytes, 4 * b - 3, 4 * b),
                                            result.program[b].times)]]
    /\ UNCHANGED <<program, labels, current_address, lines, line_num, pc, result, enc_cmd,
                    calls>>

NextLong == CallLong \/ Pass1Long \/ Pass2Long \/ ToBinaryLong

SpecLong == Init /\ [][NextLong]_vars

\* ================================================================== properties
\* A source line as the grammar reads it: the text before the first ';', trimmed
Text(line) == strip(split_first(line, ";"))

IsBlank(line) == Text(line) = <<>>

IsLabelDef(line) == ~IsBlank(line) /\ endswith(Text(line), <<":">>)

\* The name a label-definition line declares
LabelName(line) == strip(SubSeq(Text(line), 1, Len(Text(line)) - 1))

\* A line that is neither blank, comment-only nor a label definition
IsInstr(line) == ~IsBlank(line) /\ ~IsLabelDef(line)

\* Number of instruction lines among the first n lines
CountInstr(ls, n) == Cardinality({i \in 1..n : IsInstr(ls[i])})

\* Line number of the k-th instruction line
InstrLine(ls, k) == CHOOSE i \in 1..Len(ls) : IsInstr(ls[i]) /\ CountInstr(ls, i) = k

\* The range of the operand of a mnemonic, 0 for the mnemonics without operand
MaxOperand(mnemonic) ==
    IF mnemonic = <<"c","o","n","s","t">> THEN CONST_MAX
    ELSE IF mnemonic = <<"l","o","a","d">> THEN LOAD_MAX
    ELSE 0

\* A CONST or LOAD line with exactly one argument
HasOperand(line) ==
    /\ IsInstr(line)
    /\ Len(split(Text(line))) = 2
    /\ MaxOperand(lower(split(Text(line))[1])) > 0

Operand(line) == split(Text(line))[2]

\* The operand is a numeric literal outside the range of its opcode
OutOfRange(line) ==
    /\ HasOperand(line)
    /\ parse_number(Operand(line)).ok
    /\ parse_number(Operand(line)).val > MaxOperand(lower(split(Text(line))[1]))

\* The operand is not a numeric literal: a label reference
IsLabelRef(line) == HasOperand(line) /\ ~parse_number(Operand(line)).ok

\* Line j declares a label that an earlier line declares
IsRedefinition(ls, j) ==
    /\ IsLabelDef(ls[j])
    /\ \E i \in 1..(j - 1) : IsLabelDef(ls[i]) /\ LabelName(ls[i]) = LabelName(ls[j])

\* The line of the first declaration of a name
FirstDef(ls, name) ==
    CHOOSE i \in 1..Len(ls) :
        /\ IsLabelDef(ls[i]) /\ LabelName(ls[i]) = name
        /\ \A h \in 1..(i - 1) : ~(IsLabelDef(ls[h]) /\ LabelName(ls[h]) = name)

Declared(ls, name) == \E i \in 1..Len(ls) : IsLabelDef(ls[i]) /\ LabelName(ls[i]) = name

\* Line j stops pass 1 whatever precedes it, or redeclares a label: an unknown
\* mnemonic, a wrong number of arguments, a second declaration
IsPass1Error(ls, j) ==
    \/ IsRedefinition(ls, j)
    \/ /\ IsInstr(ls[j])
       /\ LET parts == split(Text(ls[j]))
              m     == lower(parts[1])
          IN \/ m \notin DOMAIN MNEMONICS
             \/ Len(parts) - 1 # (IF MaxOperand(m) > 0 THEN 1 ELSE 0)

\* The call has ended
Ended == pc = "idle" /\ result.kind \in {"return", "raise"}

\* assemble raised an error of type t tagged with line n
RaisedAt(t, n) ==
    /\ result.kind = "raise"
    /\ result.error.e.type = t
    /\ "line" \in DOMAIN result.error
    /\ result.error.line = n

\* ------------------------------------------------------------------ C1
\* C1: once pass 1 has taken a CONST/LOAD line whose one argument is a numeric
\* literal outside the opcode's range, assemble has failed with a value-out-of-range
\* error tagged with that line's number (and so has returned no program).
C1_OutOfRangeRaises ==
    \A i \in 1..line_num :
        (pc = "assemble" \/ Ended) /\ OutOfRange(lines[i])
            => RaisedAt("ValueOutOfRange", i)

\* ------------------------------------------------------------------ C2
\* C2 as stated: a source text that declares a label twice always ends in a
\* duplicate-label error tagged with the line of the second declaration.
C2_AnyDuplicateRaises ==
    \A j \in 1..Len(lines) :
        Ended /\ IsRedefinition(lines, j) /\ (\A h \in 1..(j - 1) : ~IsRedefinition(lines, h))
            => RaisedAt("DuplicateLabel", j)

\* C2, amended: once pass 1 has taken a line that declares an already declared
\* label (no earlier line having stopped it), assemble has failed at that line with
\* a duplicate-label error naming the label, whatever follows the line and whether
\* or not the label is referenced; the label table still holds the address bound
\* by the first declaration.
C2_DuplicateRaises ==
    \A j \in 1..line_num :
        (pc = "assemble" \/ Ended) /\ IsRedefinition(lines, j)
            => /\ RaisedAt("DuplicateLabel", j)
               /\ line_num = j
               /\ result.error.e.name = LabelName(lines[j])
               /\ LabelName(lines[j]) \in DOMAIN labels
               /\ labels[LabelName(lines[j])]
                     = CountInstr(lines, FirstDef(lines, LabelName(lines[j])))

\* A label is declared again on line 2 of 3, the last line being an instruction
C2_Witness ==
    /\ Len(lines) = 3
    /\ IsRedefinition(lines, 2)
    /\ IsInstr(lines[3])
    /\ RaisedAt("DuplicateLabel", 2)
    /\ labels[LabelName(lines[2])] = 0

\* ------------------------------------------------------------------ C3
\* C3: a text holding a reference to a label declared nowhere never assembles; the
\* unknown-label error is raised only when pass 1 has taken every line without
\* error, it carries no line number, while lines are still being parsed a
\* reference already seen has raised nothing, and when a later line is the first to
\* hold a pass-1 error, that line's error is the one reported.
C3_UnknownLabelAfterPass1 ==
    /\ (result.kind = "raise" /\ result.error.e.type = "UnknownLabel")
          => /\ "line" \notin DOMAIN result.error
             /\ line_num = Len(lines)
             /\ pc = "idle"
    /\ \A i \in 1..Len(lines) :
          IsLabelRef(lines[i]) /\ ~Declared(lines, Operand(lines[i]))
             => /\ Ended => result.kind = "raise"
                /\ (pc = "assemble" /\ i <= line_num) => result.kind = "running"
                /\ \A j \in (i + 1)..Len(lines) :
                      /\ Ended
                      /\ IsPass1Error(lines, j)
                      /\ \A h \in 1..(j - 1) : ~IsPass1Error(lines, h)
                      => /\ result.error.e.type # "UnknownLabel"
                         /\ "line" \in DOMAIN result.error
                         /\ result.error.line = j

\* An undeclared reference on line 1, further lines parsed, then the unknown-label error
C3_Witness ==
    /\ Len(lines) = 3
    /\ IsLabelRef(lines[1]) /\ ~Declared(lines, Operand(lines[1]))
    /\ IsLabelDef(lines[2])
    /\ result.kind = "raise"
    /\ result.error.e.type = "UnknownLabel"
    /\ result.error.e.name = Operand(lines[1])

\* ------------------------------------------------------------------ C4
\* The resolved operand of a command: CONST's value, LOAD's address_arg
OperandOf(cmd) == IF cmd.opcode = CONST THEN cmd.value ELSE cmd.address_arg

\* C4: when the second pass returns, every CONST/LOAD command that pass 1 left with
\* a label holds as operand the number of instruction lines before the line that
\* declares the label, be that line before or after the command's own line, and no
\* command of the returned program carries a label.
C4_LabelsResolve ==
    [][ (pc = "assemble" /\ pc' = "idle" /\ result'.kind = "return")
        => /\ Len(result'.program) = Len(program)
           /\ \A k \in 1..Len(program) :
                 /\ "label" \notin DOMAIN result'.program[k]
                 /\ "label" \in DOMAIN program[k]
                       => /\ program[k].opcode \in {CONST, LOAD}
                          /\ Declared(lines, program[k].label)
                          /\ OperandOf(result'.program[k])
                                = CountInstr(lines, FirstDef(lines, program[k].label)) ]_vars

\* A returned program whose first command referred forward and whose second
\* referred backward to the label declared between them, both resolved to address 1
C4_Witness ==
    /\ result.kind = "return"
    /\ Len(lines) = 3
    /\ IsLabelRef(lines[1]) /\ IsLabelDef(lines[2]) /\ IsLabelRef(lines[3])
    /\ Operand(lines[1]) = LabelName(lines[2])
    /\ Operand(lines[3]) = LabelName(lines[2])
    /\ OperandOf(result.program[1]) = 1
    /\ OperandOf(result.program[2]) = 1

\* ------------------------------------------------------------------ C5
\* C5: while pass 1 runs (every line taken so far parsed without error),
\* current_address is the number of commands collected, which is the number of
\* instruction lines taken (blank, comment-only and label lines add nothing), and the
\* i-th command has address i-1 and comes from the i-th instruction line.
C5_AddressesContiguous ==
    pc = "assemble"
        => /\ current_address = Len(program)
           /\ Len(program) = CountInstr(lines, line_num)
           /\ \A i \in 1..Len(program) :
                 /\ program[i].address = i - 1
                 /\ program[i].raw_line = Text(lines[InstrLine(lines, i)])

\* Pass 1 has taken a label line, a blank or comment line and an instruction line
C5_Witness ==
    /\ pc = "assemble"
    /\ line_num = 3
    /\ \E i, j, k \in 1..3 : IsLabelDef(lines[i]) /\ IsBlank(lines[j]) /\ IsInstr(lines[k])
    /\ current_address = 1

\* ------------------------------------------------------------------ C6
\* C6: in every returned program each CONST value is within 0..65535 and each LOAD
\* address within 0..16777215 (over the runs of a long program: the commands of a
\* run carry the same operand).
C6_OperandsInRange ==
    result.kind = "return"
        => \A b \in 1..Len(result.program) :
              LET cmd == result.program[b].item
              IN /\ cmd.opcode = CONST => 0 <= cmd.value /\ cmd.value <= CONST_MAX
                 /\ cmd.opcode = LOAD => 0 <= cmd.address_arg /\ cmd.address_arg <= LOAD_MAX

\* ------------------------------------------------------------------ C7
\* The 32-bit word four little-endian bytes spell
WordOf(b) == b[1] + 2^8 * b[2] + 2^16 * b[3] + 2^24 * b[4]

\* C7: encode_instruction gives four bytes whose little-endian word has the opcode
\* in bits 0-5, the operand in the bits right above (CONST: 6-21, LOAD: 6-29) and
\* zeros in all higher bits; STORE and BITREV give [opcode, 0, 0, 0].
C7_BitFields ==
    enc_cmd # <<>>
        => LET cmd == enc_cmd[1]
               b   == binary.bytes
           IN /\ binary.kind = "return"
              /\ Len(b) = 4
              /\ \A i \in 1..4 : b[i] \in 0..255
              /\ WordOf(b) % 2^6 = cmd.opcode
              /\ cmd.opcode = CONST
                    => /\ cmd.opcode = 42
                       /\ (WordOf(b) \div 2^6) % 2^16 = cmd.value
                       /\ WordOf(b) \div 2^22 = 0
              /\ cmd.opcode = LOAD
                    => /\ cmd.opcode = 23
                       /\ (WordOf(b) \div 2^6) % 2^24 = cmd.address_arg
                       /\ WordOf(b) \div 2^30 = 0
              /\ cmd.opcode \in {STORE, BITREV} => b = <<cmd.opcode, 0, 0, 0>>

\* CONST 65535 encoded: 0x003FFFEA
C7_Witness ==
    /\ enc_cmd = <<[opcode |-> CONST, value |-> CONST_MAX]>>
    /\ binary = [kind |-> "return", bytes |-> <<234, 255, 63, 0>>]

\* ------------------------------------------------------------------ C8
\* The test program's three spellings of 100
HundredLines ==
    << <<"c","o","n","s","t"," ","0","x","6","4">>,
       <<"c","o","n","s","t"," ","0","b","1","1","0","0","1","0","0">>,
       <<"c","o","n","s","t"," ","0","1","4","4">> >>

\* C8: 'const 0x64', 'const 0b1100100', 'const 0144' assemble to three CONST
\* commands of value 100, and to three identical words.
C8_AllHundred ==
    lines = HundredLines /\ pc = "idle"
        => /\ result.kind = "return"
           /\ Len(result.program) = 3
           /\ \A k \in 1..3 : result.program[k].opcode = CONST /\ result.program[k].value = 100
           /\ binary.kind = "return"
                 => /\ SubSeq(binary.bytes, 1, 4) = SubSeq(binary.bytes, 5, 8)
                    /\ SubSeq(binary.bytes, 5, 8) = SubSeq(binary.bytes, 9, 12)

\* ------------------------------------------------------------------ C9
\* C9 on the short texts: to_binary of a returned program is one 4-byte word per
\* command, in program order: 4 * len(program) bytes, bytes 4i..4i+3 being the
\* encoding of command i.
C9_FourBytesEach ==
    result.kind = "return" /\ binary.kind # "none"
        => /\ binary.kind = "return"
           /\ Len(binary.bytes) = 4 * Len(result.program)
           /\ \A i \in 1..Len(result.program) :
                 SubSeq(binary.bytes, 4 * i - 3, 4 * i)
                    = encode_instruction(result.program[i]).bytes

\* Two different commands, the second resolved from a label to address 1, and
\* their 8 bytes
C9_Witness ==
    /\ result.kind = "return"
    /\ binary.kind = "return"
    /\ Len(binary.bytes) = 8
    /\ IsLabelRef(lines[Len(lines)])
    /\ result.program[1].opcode # result.program[2].opcode
    /\ OperandOf(result.program[2]) = 1

\* C9: to_binary of a returned program is one 4-byte word per command, in program
\* order (over the runs of a long program: run by run, as many equal 4-byte words
\* as the run has commands, each the encoding of the run's command).
C9_LongFourBytesEach ==
    result.kind = "return" /\ binary.kind # "none"
        => /\ binary.kind = "return"
           /\ Len(binary.bytes) = Len(result.program)
           /\ \A b \in 1..Len(result.program) :
                 /\ binary.bytes[b].times = result.program[b].times
                 /\ Len(binary.bytes[b].item) = 4
                 /\ binary.bytes[b].item = encode_instruction(result.program[b].item).bytes

\* ------------------------------------------------------------------ C10
\* assemble on a newly constructed instance (__init__: no command, no label,
\* address 0), as one function of the text
RECURSIVE fresh_from(_, _, _, _, _)
fresh_after(ls, n, it) ==
    IF it.raised THEN it.result
    ELSE fresh_from(ls, n, it.program, it.labels, it.current_address)

fresh_from(ls, n, prog, labs, addr) ==
    IF n = Len(ls) THEN pass2(prog, labs).result
    ELSE fresh_after(ls, n + 1, pass1_line(ls, n + 1, prog, labs, addr))

fresh_assemble(ls) == fresh_from(ls, 0, <<>>, EmptyDict, 0)

\* C10: whatever calls came before on the instance, however they ended, a call
\* returns the program, or raises the error, that the same text gives on a new
\* instance.
C10_SameAsFresh ==
    Ended => result = fresh_assemble(lines)

\* A second call on the instance has returned a program that binds and uses a label
C10_Witness ==
    /\ calls = 2
    /\ Ended
    /\ result.kind = "return"
    /\ labels # EmptyDict
    /\ \E i \in 1..Len(lines) : IsLabelRef(lines[i])

====
